---- MODULE Spec2Model ----
(***************************************************************************)
(* Model of config_optimization/optimize.py: the search driver (main) and  *)
(* the components it composes (apply_nginx_config, reset_system,           *)
(* restart_nginx, run_load_test, parse_locust_results,                     *)
(* generate_grid_configs, generate_report).                                *)
(*                                                                         *)
(* Numbers: Python floats are modelled as integers counting tenths         *)
(* (150.5 is 1505); a float obtained by a division is an exact fraction    *)
(* [num, den] in lowest terms.                                             *)
(***************************************************************************)
EXTENDS Integers, Sequences, FiniteSets, TLC

VARIABLES
    pc,             \* position of main()
    args,           \* parsed command line: iterations, grid_size
    configs,        \* candidate list after shuffle and truncation
    history,        \* list of {iteration, config, metrics}
    metrics,        \* result of the last run_load_test not yet recorded
    iteration,      \* loop variable of the candidate loop
    initial_rps,    \* baseline throughput
    best_rps,       \* best-so-far throughput
    best_config,    \* best-so-far configuration
    improvement,    \* improvement computed by main after the loop
    nginx_conf,     \* content of nginx.conf
    results_dir,    \* load_testing/results/with_balancer: exists, files by mtime
    report,         \* report file written by generate_report
    full_file,      \* optimization_history.json
    partial_file,   \* optimization_history_partial.json
    calls,          \* how many times each component was invoked, and how
                    \* many times `docker compose down -v` was run
    tested,         \* iterations for which run_load_test was invoked
    skipped,        \* iterations whose reset_system returned False
    failed,         \* iterations whose load test failed, each with the reason
    interrupted_at, \* pc at which KeyboardInterrupt was raised ("" if never)
    call,           \* the component call made last (with its arguments when
                    \* the component is called on its own)
    returned        \* what that call returned (to main: a record with its
                    \* boolean `ok`, its outcome `ret`, or the metrics)

vars == <<pc, args, configs, history, metrics, iteration, initial_rps, best_rps,
          best_config, improvement, nginx_conf, results_dir, report, full_file,
          partial_file, calls, tested, skipped, failed, interrupted_at, call,
          returned>>

(***************************************************************************)
(* Bounds of the exploration.                                              *)
(***************************************************************************)
\* largest --iterations explored
MaxIterations == 2
\* largest Requests/s cell (in tenths) the load generator writes
MaxRps == 2

\* largest --grid-size (and smallest, negated) candidate generation is explored with
MaxGridSize == 5
\* largest --iterations (and smallest, negated) candidate generation is explored with
MaxRequested == 9

\* most rows of a results artifact parse_locust_results is explored with
MaxRows == 2

\* largest --iterations termination is explored with
MaxFairIterations == 1

\* most records of a history generate_report is explored with
MaxRecords == 3

\* --grid-size values the driver is explored with
GridSizes == {1, 2}

(***************************************************************************)
(* Arithmetic helpers.                                                     *)
(***************************************************************************)
Min(a, b) == IF a <= b THEN a ELSE b

Max(a, b) == IF a >= b THEN a ELSE b

Abs(n) == IF n < 0 THEN 0 - n ELSE n

RECURSIVE Gcd(_, _)
Gcd(a, b) == IF b = 0 THEN a ELSE Gcd(b, a % b)

\* the float n/d (d > 0), kept exact: a fraction in lowest terms
Frac(n, d) ==
    LET g == Gcd(Abs(n), d)
    IN  [num |-> n \div g, den |-> d \div g]

\* Python's s[:n]
SliceTo(s, n) ==
    IF n >= 0 THEN SubSeq(s, 1, Min(n, Len(s)))
    ELSE SubSeq(s, 1, Max(Len(s) + n, 0))

(***************************************************************************)
(* generate_grid_configs and get_default_config.                           *)
(***************************************************************************)
get_default_config ==
    [nginx |-> [worker_connections |-> 1024,
                keepalive_timeout  |-> 65,
                upstream_keepalive |-> 32]]

\* one axis: the fixed list cut to grid_size, or grid_size evenly spaced
\* values from lo to hi, each truncated by int()
AxisValues(fixed, lo, hi, grid_size) ==
    IF grid_size <= 4 THEN SliceTo(fixed, grid_size)
    ELSE [i \in 1..grid_size |->
            lo + ((i - 1) * (hi - lo)) \div (grid_size - 1)]

generate_grid_configs(grid_size) ==
    LET wc_values == AxisValues(<<512, 1024, 1536, 2048>>, 512, 2048, grid_size)
        kt_values == AxisValues(<<30, 60, 90, 120>>, 30, 120, grid_size)
        uk_values == AxisValues(<<16, 32, 48, 64>>, 16, 64, grid_size)
        n == Len(wc_values)
    IN  [k \in 1..(n * n * n) |->
            [nginx |-> [worker_connections |-> wc_values[((k - 1) \div (n * n)) + 1],
                        keepalive_timeout  |-> kt_values[(((k - 1) \div n) % n) + 1],
                        upstream_keepalive |-> uk_values[((k - 1) % n) + 1]]]]

(***************************************************************************)
(* random.shuffle: the permutations explored are the generated order, its  *)
(* reverse, and each of the two rotated by one place.                      *)
(***************************************************************************)
Reverse(s) == [i \in 1..Len(s) |-> s[Len(s) + 1 - i]]

Rotate(s, k) == [i \in 1..Len(s) |-> s[((i - 1 + k) % Len(s)) + 1]]

Shuffles(s) ==
    IF Len(s) = 0 THEN {s}
    ELSE {s, Reverse(s), Rotate(s, 1), Rotate(Reverse(s), 1)}

(***************************************************************************)
(* Result artifacts (CSV) and parse_locust_results.                        *)
(* A cell is the text of one CSV field: an integer literal, a decimal      *)
(* literal (v in tenths), text that is no number, or a column the file     *)
(* does not have (row.get then yields its default 0).                      *)
(***************************************************************************)
IntCell(n) == [kind |-> "int", v |-> n]

DecCell(t) == [kind |-> "dec", v |-> t]

JunkCell == [kind |-> "junk", v |-> 0]

AbsentCell == [kind |-> "absent", v |-> 0]

\* float(cell) succeeds
FloatOk(c) == c.kind \in {"int", "dec", "absent"}

\* float(cell), in tenths
ToFloat(c) == IF c.kind = "int" THEN 10 * c.v ELSE IF c.kind = "dec" THEN c.v ELSE 0

\* int(cell) succeeds: int("150.5") raises ValueError
IntOk(c) == c.kind \in {"int", "absent"}

ToInt(c) == IF c.kind = "int" THEN c.v ELSE 0

ZeroMetrics ==
    [rps |-> 0, avg_response_time |-> 0, total_requests |-> 0,
     success_rate |-> Frac(0, 1)]

\* a parser that takes any row for the aggregate row
AnyRow(row) == TRUE

IsAggregated(row) == row.Type = "Aggregated" \/ row.Name = "Aggregated"

\* the metrics dict after the statements of the matching row have run, up to
\* the first one that raises
ParseRow(row) ==
    IF ~FloatOk(row.Requests_s) THEN ZeroMetrics
    ELSE LET m1 == [ZeroMetrics EXCEPT !.rps = ToFloat(row.Requests_s)]
         IN  IF ~FloatOk(row.Average_Response_Time) THEN m1
             ELSE LET m2 == [m1 EXCEPT !.avg_response_time =
                                          ToFloat(row.Average_Response_Time)]
                      total_requests == ToInt(row.Request_Count)
                      total_failures == ToInt(row.Failure_Count)
                  IN  IF ~IntOk(row.Request_Count) \/ ~IntOk(row.Failure_Count)
                      THEN m2
                      ELSE IF total_requests > 0
                           THEN [m2 EXCEPT
                                   !.total_requests = total_requests,
                                   !.success_rate =
                                       Frac((total_requests - total_failures) * 100,
                                            total_requests)]
                           ELSE m2

\* a parser that goes on scanning and keeps the last aggregate row
ParseLastAggregated(stats_file) ==
    IF ~stats_file.readable THEN ZeroMetrics
    ELSE LET rows == stats_file.rows
             hits == {i \in 1..Len(rows) : IsAggregated(rows[i])}
         IN  IF hits = {} THEN ZeroMetrics
             ELSE ParseRow(rows[CHOOSE i \in hits : \A j \in hits : i >= j])

parse_locust_results(stats_file) ==
    IF ~stats_file.readable THEN ZeroMetrics
    ELSE LET rows == stats_file.rows
             hits == {i \in 1..Len(rows) : IsAggregated(rows[i])}
         IN  IF hits = {} THEN ZeroMetrics
             ELSE ParseRow(rows[CHOOSE i \in hits : \A j \in hits : i <= j])

(***************************************************************************)
(* apply_nginx_config.  nginx.conf is a sequence of tokens: a directive    *)
(* "name<ws>digits<gap>;", a line end, or any other text.  io is what the  *)
(* file system does to the call.                                           *)
(***************************************************************************)
Dir(name, ws, value, gap) ==
    [kind |-> "directive", name |-> name, ws |-> ws, value |-> value, gap |-> gap]

Txt(text) == [kind |-> "text", name |-> text, ws |-> "", value |-> 0, gap |-> ""]

\* a line end: "LF" or "CRLF"
Eol(e) == [kind |-> "eol", name |-> e, ws |-> "", value |-> 0, gap |-> ""]

\* an nginx.conf with an events block, an http block and the upstream block
ConfFile(eol, ws, gap, commented, uws, ugap, second, other) ==
    <<Txt("events {")>>
    \o (IF commented
        THEN <<Txt("# "), Dir("worker_connections", " ", 512, ""), Eol(eol)>>
        ELSE <<>>)
    \o <<Dir("worker_connections", ws, 1024, gap), Eol(eol), Txt("}"),
         Txt("http {"), Dir("keepalive_timeout", ws, 65, ""), Eol(eol),
         Txt("upstream backend {")>>
    \o (IF second THEN <<Dir("keepalive", " ", 16, ""), Eol(eol)>> ELSE <<>>)
    \o <<Dir("keepalive", uws, 32, ugap), Eol(eol), Txt("}")>>
    \o (IF other
        THEN <<Txt("upstream other {"), Dir("keepalive", " ", 8, ""), Txt("}")>>
        ELSE <<>>)
    \o <<Txt("}")>>

\* the nginx.conf the driver starts with: one directive each, single spaces
DefaultConf == ConfFile("LF", " ", "", FALSE, " ", "", FALSE, FALSE)

\* open(path, 'r').read(): universal newlines turn every line end into "\n"
ReadText(conf) ==
    [i \in 1..Len(conf) |-> IF conf[i].kind = "eol" THEN Eol("LF") ELSE conf[i]]

\* re.sub(name\s+\d+;, "name value;", content): every match is replaced by
\* the directive written with one space (lines 39-51)
SubDirective(config, name, content) ==
    IF name \notin DOMAIN config THEN content
    ELSE [i \in 1..Len(content) |->
            IF /\ content[i].kind = "directive"
               /\ content[i].name = name
               /\ content[i].gap = ""
            THEN [content[i] EXCEPT !.ws = " ", !.value = config[name]]
            ELSE content[i]]

\* token i is what (upstream backend \{[^}]*keepalive\s+)\d+(\s*;) matches:
\* the last keepalive directive before the first "}" after the block header
IsUpstreamKeepalive(content, i) ==
    /\ content[i].kind = "directive"
    /\ content[i].name = "keepalive"
    /\ \E k \in 1..(i - 1) :
          /\ content[k] = Txt("upstream backend {")
          /\ \A j \in (k + 1)..(i - 1) : content[j] # Txt("}")
    /\ \A j \in (i + 1)..Len(content) :
          (content[j].kind = "directive" /\ content[j].name = "keepalive") =>
            \E m \in (i + 1)..(j - 1) : content[m] = Txt("}")

\* lines 53-64: only the digits are replaced
SubUpstreamKeepalive(config, content) ==
    IF "upstream_keepalive" \notin DOMAIN config THEN content
    ELSE [i \in 1..Len(content) |->
            IF IsUpstreamKeepalive(content, i)
            THEN [content[i] EXCEPT !.value = config["upstream_keepalive"]]
            ELSE content[i]]

\* the read fails; opening for writing fails; the file is opened for writing
\* (which empties it) and the write fails
ApplyIO == {"ok", "read_error", "open_error", "write_error"}

\* lines 66-72: open(path, 'w') truncates the file before anything is written
WriteText(before, content, io) ==
    IF io = "ok" THEN [ok |-> TRUE, conf |-> content]
    ELSE IF io = "write_error" THEN [ok |-> FALSE, conf |-> <<>>]
    ELSE [ok |-> FALSE, conf |-> before]

\* [ok |-> the return value, conf |-> the file afterwards]
apply_nginx_config(config, conf, io) ==
    IF io = "read_error" THEN [ok |-> FALSE, conf |-> conf]
    ELSE WriteText(conf,
                   SubUpstreamKeepalive(config,
                       SubDirective(config, "keepalive_timeout",
                           SubDirective(config, "worker_connections",
                                        ReadText(conf)))),
                   io)

(***************************************************************************)
(* reset_system and restart_nginx.  A docker command exits 0, exits        *)
(* non-zero (CalledProcessError), or cannot be launched (an OSError, which *)
(* the functions do not catch).                                            *)
(***************************************************************************)
CmdResults == {"ok", "nonzero", "oserror"}

\* range(30): how often reset_system polls the database
PollLimit == 30

\* what the environment does during one reset: the three compose commands,
\* whether psycopg2 is installed, the poll at which the database accepts a
\* connection (beyond PollLimit: never), the TRUNCATE through psycopg2, and
\* the TRUNCATE through docker exec
ResetEnvs ==
    [down : CmdResults, down_v : CmdResults, up : CmdResults,
     has_psycopg2 : BOOLEAN, db_ready_at : {1, 2, PollLimit, PollLimit + 1},
     truncate : {"ok", "error"}, exec : CmdResults]

Step(name, polls) == [name |-> name, polls |-> polls]

\* a poll that goes on until the database accepts a connection
WaitUntilReady(attempt, ready_at) == ready_at

\* lines 116-123: the connection attempts made by the loop from the given
\* attempt on; the loop ends at the first attempt that connects (break) or
\* when range(30) is exhausted
RECURSIVE WaitForDb(_, _)
WaitForDb(attempt, ready_at) ==
    IF attempt >= PollLimit THEN PollLimit
    ELSE IF attempt >= ready_at THEN attempt
    ELSE WaitForDb(attempt + 1, ready_at)

\* lines 110-155, after `docker compose up -d` succeeded
AfterUp(steps, env) ==
    LET truncated == env.has_psycopg2 /\ env.truncate = "ok"
        s1 == IF env.has_psycopg2
              THEN steps \o <<Step("wait_db", WaitForDb(1, env.db_ready_at)),
                              Step("truncate", 0)>>
              ELSE steps
        s2 == Append(s1, Step("exec_truncate", 0))
    IN  IF truncated THEN [ret |-> "true", steps |-> s1]
        ELSE IF env.exec = "oserror" THEN [ret |-> "raise", steps |-> s2]
        ELSE [ret |-> "true", steps |-> s2]

\* a compose command that did not exit 0 ends the function
Stop(result, steps) ==
    [ret |-> IF result = "nonzero" THEN "false" ELSE "raise", steps |-> steps]

\* [ret |-> "true", "false", or "raise" when an exception leaves the
\* function, steps |-> the steps executed, in order]
reset_system(full_reset, env) ==
    LET s_down == <<Step("down", 0)>>
        s_down_v == IF full_reset THEN Append(s_down, Step("down_v", 0))
                    ELSE s_down
        s_up == Append(s_down_v, Step("up", 0))
    IN  IF env.down # "ok" THEN Stop(env.down, s_down)
        ELSE IF full_reset /\ env.down_v # "ok" THEN Stop(env.down_v, s_down_v)
        ELSE IF env.up # "ok" THEN Stop(env.up, s_up)
        ELSE AfterUp(s_up, env)

\* how often the steps executed removed the volumes
VolumeRemovals(steps) ==
    Cardinality({i \in 1..Len(steps) : steps[i].name = "down_v"})

\* what reset_system can return, and how often it then removed the volumes
ResetReturns ==
    [full_reset \in BOOLEAN |->
        {[ret |-> reset_system(full_reset, env).ret,
          down_v |-> VolumeRemovals(reset_system(full_reset, env).steps)] :
            env \in ResetEnvs}]

restart_nginx(cmd) ==
    IF cmd = "nonzero" THEN "false"
    ELSE IF cmd = "oserror" THEN "raise"
    ELSE "true"

(***************************************************************************)
(* run_load_test.  The test script either runs past the timeout or exits   *)
(* (its exit code is not looked at); it may create the results directory   *)
(* and may write one new artifact, which becomes the newest file.          *)
(***************************************************************************)
RequestRow ==
    [Type |-> "GET", Name |-> "/api/todos", Requests_s |-> DecCell(1),
     Average_Response_Time |-> DecCell(1), Request_Count |-> IntCell(1),
     Failure_Count |-> IntCell(0)]

AggregatedRow(rps, avg, count, fail) ==
    [Type |-> "", Name |-> "Aggregated", Requests_s |-> rps,
     Average_Response_Time |-> avg, Request_Count |-> count,
     Failure_Count |-> fail]

Artifact(rows) == [readable |-> TRUE, rows |-> rows]

\* artifacts the load generator writes during a search
ScriptArtifacts ==
    {Artifact(<<RequestRow,
                AggregatedRow(DecCell(r), DecCell(5), IntCell(10), IntCell(1))>>) :
        r \in 0..MaxRps}
    \cup {Artifact(<<RequestRow>>),
          Artifact(<<RequestRow,
                     AggregatedRow(DecCell(MaxRps), JunkCell, IntCell(10), IntCell(1))>>)}

ScriptOutcomes ==
    {[end |-> "timeout", mkdir |-> FALSE, wrote |-> <<>>],
     [end |-> "exit", mkdir |-> FALSE, wrote |-> <<>>],
     [end |-> "exit", mkdir |-> TRUE, wrote |-> <<>>]}
    \cup {[end |-> "exit", mkdir |-> TRUE, wrote |-> <<a>>] : a \in ScriptArtifacts}

\* the results directory after the script has run
ScriptEffect(dir, outcome) ==
    [exists |-> dir.exists \/ outcome.mkdir,
     files  |-> dir.files \o outcome.wrote]

\* reading the artifact raises inside parse_locust_results: the file cannot
\* be read, or a cell of the first aggregate row is no number of its type
ParseRaises(a) ==
    \/ ~a.readable
    \/ \E i \in 1..Len(a.rows) :
          /\ IsAggregated(a.rows[i])
          /\ \A j \in 1..(i - 1) : ~IsAggregated(a.rows[j])
          /\ \/ ~FloatOk(a.rows[i].Requests_s)
             \/ ~FloatOk(a.rows[i].Average_Response_Time)
             \/ ~IntOk(a.rows[i].Request_Count)
             \/ ~IntOk(a.rows[i].Failure_Count)

\* how the load test of this script run failed, "none" if it did not
Failure(outcome) ==
    IF outcome.end = "timeout" THEN "timeout"
    ELSE IF outcome.wrote = <<>> THEN "no_artifact"
    ELSE IF ParseRaises(outcome.wrote[1]) THEN "parse"
    ELSE "none"

ErrorMetrics(msg) == [rps |-> 0, error |-> msg]

\* dir is the results directory after the script has run; files are kept in
\* mtime order, so stats_files[0] is the last one
run_load_test(dir, outcome) ==
    IF outcome.end = "timeout" THEN ErrorMetrics("exceeded maximum time")
    ELSE IF ~dir.exists THEN ErrorMetrics("results directory not found")
    ELSE IF dir.files = <<>> THEN ErrorMetrics("CSV result file not found")
    ELSE parse_locust_results(dir.files[Len(dir.files)])

(***************************************************************************)
(* generate_report.                                                        *)
(***************************************************************************)
NoFile == [state |-> "absent"]

Written(doc) == [state |-> "written", doc |-> doc]

\* a max() that returns the last element with the largest key
MaxByRpsLast(h) ==
    h[CHOOSE i \in 1..Len(h) :
        /\ \A j \in 1..Len(h) : h[j].metrics.rps <= h[i].metrics.rps
        /\ \A j \in (i + 1)..Len(h) : h[j].metrics.rps < h[i].metrics.rps]

\* max(history, key=rps): the first element with the largest key
MaxByRps(h) ==
    h[CHOOSE i \in 1..Len(h) :
        /\ \A j \in 1..Len(h) : h[j].metrics.rps <= h[i].metrics.rps
        /\ \A j \in 1..(i - 1) : h[j].metrics.rps < h[i].metrics.rps]

Improvement(best, initial) ==
    IF initial > 0 THEN Frac((best - initial) * 100, initial) ELSE Frac(0, 1)

ReportRow(item) ==
    [iteration |-> item.iteration,
     worker_connections |-> item.config.nginx.worker_connections,
     keepalive_timeout  |-> item.config.nginx.keepalive_timeout,
     upstream_keepalive |-> item.config.nginx.upstream_keepalive,
     rps |-> item.metrics.rps]

\* the document generate_report writes for a non-empty history
generate_report(h) ==
    LET best_iter == MaxByRps(h)
        first_rps == h[1].metrics.rps
    IN  [initial_rps |-> first_rps,
         best_rps    |-> best_iter.metrics.rps,
         best_config |-> best_iter.config,
         improvement |-> Improvement(best_iter.metrics.rps, first_rps),
         iterations  |-> Len(h),
         rows        |-> [i \in 1..Len(h) |-> ReportRow(h[i])]]

\* what the charting library does: it is not installed (HAS_PLOTTING is
\* False), it renders both charts, or it raises while rendering the first or
\* the second chart
Charting == {"unavailable", "ok", "fails_first", "fails_second"}

\* lines 291-340: image_files after the charting block, whose exceptions are
\* caught at line 339
Charts(charting) ==
    IF charting = "ok" THEN <<"rps_over_iterations", "rps_vs_params">>
    ELSE IF charting = "fails_second" THEN <<"rps_over_iterations">>
    ELSE <<>>

\* a generator that writes the report only when no chart failed to render
WriteReportUnlessChartFails(h, charting, io) ==
    IF h = <<>> \/ io = "error" \/ charting \in {"fails_first", "fails_second"}
    THEN [ret |-> "raise", file |-> NoFile, images |-> <<>>]
    ELSE [ret |-> "path", file |-> Written(generate_report(h)),
          images |-> Charts(charting)]

\* lines 269-443 as a call: max() of an empty history raises (line 279), and
\* so does a reports directory or report file that cannot be written (lines
\* 271 and 439); otherwise the report is written with the charts rendered
WriteReport(h, charting, io) ==
    IF h = <<>> \/ io = "error"
    THEN [ret |-> "raise", file |-> NoFile, images |-> <<>>]
    ELSE [ret |-> "path", file |-> Written(generate_report(h)),
          images |-> Charts(charting)]

\* what main sees of a call of generate_report: whether it returned or
\* raised, and the report file
ReportOutcomes(h) ==
    {[ret |-> WriteReport(h, charting, io).ret,
      file |-> WriteReport(h, charting, io).file] :
        charting \in Charting, io \in {"ok", "error"}}

\* json.dump(history, f)
JsonDump(h) ==
    [i \in 1..Len(h) |->
        [iteration |-> h[i].iteration, config |-> h[i].config,
         metrics |-> h[i].metrics]]

(***************************************************************************)
(* main: the search driver.                                                *)
(***************************************************************************)
Unset == [unset |-> TRUE]

Called(op) == [calls EXCEPT ![op] = @ + 1]

\* a driver that numbers every record 0
RecordUnnumbered(i, config, m) ==
    [iteration |-> 0, config |-> config, metrics |-> m]

\* lines 498 and 530: the dict appended to history
Record(i, config, m) == [iteration |-> i, config |-> config, metrics |-> m]

\* the configuration main tests in iteration i
ConfigOf(i) == IF i = 0 THEN get_default_config ELSE configs[i]

\* positions inside the try block, where KeyboardInterrupt is caught
TryPcs == {"base_apply", "base_reset", "base_restart", "base_test", "base_record",
           "loop_head", "cand_apply", "cand_reset", "cand_restart", "cand_test",
           "cand_record", "results", "report", "persist"}

CandidatePcs == {"loop_head", "cand_apply", "cand_reset", "cand_restart",
                 "cand_test", "cand_record"}

\* what main has not touched yet when it starts
Fresh ==
    /\ configs = <<>>
    /\ history = <<>>
    /\ metrics = Unset
    /\ iteration = 0
    /\ initial_rps = Unset
    /\ best_rps = Unset
    /\ best_config = Unset
    /\ improvement = Unset
    /\ results_dir = [exists |-> FALSE, files |-> <<>>]
    /\ report = NoFile
    /\ full_file = NoFile
    /\ partial_file = NoFile
    /\ calls = [apply |-> 0, reset |-> 0, restart |-> 0, load_test |-> 0,
                report |-> 0, down_v |-> 0]
    /\ tested = {}
    /\ skipped = {}
    /\ failed = {}
    /\ interrupted_at = ""
    /\ returned = Unset

\* main starts with the command line a (lines 451-480)
Start(a) ==
    /\ pc = "generate"
    /\ args = a
    /\ nginx_conf = DefaultConf
    /\ call = Unset
    /\ Fresh

\* argparse takes any integer for --iterations
Init ==
    \E a \in [iterations : (-1)..MaxIterations, grid_size : GridSizes,
               full_reset : BOOLEAN] : Start(a)

\* a driver that never truncates the candidate list
KeepAll(shuffled, iterations) == shuffled

\* configs[:iterations] when there are more configs than iterations
Truncate(shuffled, iterations) ==
    IF Len(shuffled) > iterations THEN SliceTo(shuffled, iterations) ELSE shuffled

\* lines 472-480
Generate ==
    /\ pc = "generate"
    /\ \E shuffled \in Shuffles(generate_grid_configs(args.grid_size)) :
           configs' = Truncate(shuffled, args.iterations)
    /\ pc' = "base_apply"
    /\ UNCHANGED <<args, history, metrics, iteration, initial_rps, best_rps,
                   best_config, improvement, nginx_conf, results_dir, report,
                   full_file, partial_file, calls, tested, skipped, failed, interrupted_at,
                   call, returned>>

\* a driver that restarts the proxy right after editing a candidate's
\* configuration, without the reset
AfterApplySkipsReset(ok, next) ==
    IF next = "cand_reset" THEN "cand_restart" ELSE next

\* the step after apply_nginx_config: its return value is not looked at
AfterApply(ok, next) == next

\* lines 487 and 521
Apply(from, to, config) ==
    /\ pc = from
    /\ \E io \in ApplyIO :
         LET r == apply_nginx_config(config.nginx, nginx_conf, io)
         IN  /\ nginx_conf' = r.conf
             /\ returned' = [ok |-> r.ok]
             /\ pc' = AfterApply(r.ok, to)
    /\ call' = [op |-> "apply_nginx_config"]
    /\ calls' = Called("apply")
    /\ UNCHANGED <<args, configs, history, metrics, iteration, initial_rps,
                   best_rps, best_config, improvement, results_dir, report,
                   full_file, partial_file, tested, skipped, failed, interrupted_at>>

BaseApply == Apply("base_apply", "base_reset", get_default_config)

CandApply == Apply("cand_apply", "cand_reset", configs[iteration])

\* a driver that goes on with the baseline whatever its reset returned
AfterBaseResetIgnoresFailure(ret) ==
    IF ret = "raise" THEN "Errored" ELSE "base_restart"

\* where main goes when the baseline reset_system returns ret (lines 488-490)
AfterBaseReset(ret) ==
    IF ret = "true" THEN "base_restart"
    ELSE IF ret = "false" THEN "Aborted"
    ELSE "Errored"

\* a driver that tests a candidate whatever its reset returned
AfterCandResetIgnoresFailure(ret) ==
    IF ret = "raise" THEN "Errored" ELSE "cand_restart"

\* where main goes when a candidate's reset_system returns ret (lines 523-524)
AfterCandReset(ret) ==
    IF ret = "true" THEN "cand_restart"
    ELSE IF ret = "false" THEN "loop_head"
    ELSE "Errored"

ResetResults == {"true", "false", "raise"}

Reset(from, full, after) ==
    /\ pc = from
    /\ \E r \in ResetReturns[full] :
             /\ pc' = after[r.ret]
             /\ skipped' = IF r.ret = "false" THEN skipped \cup {iteration}
                           ELSE skipped
             /\ returned' = [ret |-> r.ret]
             /\ calls' = [calls EXCEPT !.reset = @ + 1, !.down_v = @ + r.down_v]
    /\ call' = [op |-> "reset_system"]
    /\ UNCHANGED <<args, configs, history, metrics, iteration, initial_rps,
                   best_rps, best_config, improvement, nginx_conf, results_dir,
                   report, full_file, partial_file, tested, failed,
                   interrupted_at>>

\* line 488
BaseReset ==
    Reset("base_reset", args.full_reset,
          [ret \in ResetResults |-> AfterBaseReset(ret)])

\* a driver that passes --full-reset on to the reset of every candidate
CandidateFullResetFromOption(option) == option

\* line 523: full_reset=False, whatever --full-reset is
CandidateFullReset(option) == FALSE

\* line 523
CandReset ==
    Reset("cand_reset", CandidateFullReset(args.full_reset),
          [ret \in ResetResults |-> AfterCandReset(ret)])

\* lines 491 and 525: the return value is not looked at, an exception is
Restart(from, to) ==
    /\ pc = from
    /\ \E cmd \in CmdResults :
         /\ returned' = [ret |-> restart_nginx(cmd)]
         /\ pc' = IF restart_nginx(cmd) = "raise" THEN "Errored" ELSE to
    /\ call' = [op |-> "restart_nginx"]
    /\ calls' = Called("restart")
    /\ UNCHANGED <<args, configs, history, metrics, iteration, initial_rps,
                   best_rps, best_config, improvement, nginx_conf, results_dir,
                   report, full_file, partial_file, tested, skipped, failed,
                   interrupted_at>>

BaseRestart == Restart("base_restart", "base_test")

CandRestart == Restart("cand_restart", "cand_test")

\* lines 497 and 527
LoadTest(from, to) ==
    /\ pc = from
    /\ \E outcome \in ScriptOutcomes :
         LET dir == ScriptEffect(results_dir, outcome)
         IN  /\ results_dir' = dir
             /\ metrics' = run_load_test(dir, outcome)
             /\ returned' = run_load_test(dir, outcome)
             /\ failed' = IF Failure(outcome) = "none" THEN failed
                           ELSE failed \cup {[iteration |-> iteration,
                                              why |-> Failure(outcome)]}
    /\ pc' = to
    /\ calls' = Called("load_test")
    /\ tested' = tested \cup {iteration}
    /\ call' = [op |-> "run_load_test"]
    /\ UNCHANGED <<args, configs, history, iteration, initial_rps, best_rps,
                   best_config, improvement, nginx_conf, report, full_file,
                   partial_file, skipped, interrupted_at>>

BaseTest == LoadTest("base_test", "base_record")

CandTest == LoadTest("cand_test", "cand_record")

\* lines 498-507
BaseRecord ==
    /\ pc = "base_record"
    /\ history' = Append(history, Record(0, get_default_config, metrics))
    /\ initial_rps' = metrics.rps
    /\ best_rps' = metrics.rps
    /\ best_config' = get_default_config
    /\ pc' = "loop_head"
    /\ UNCHANGED <<args, configs, metrics, iteration, improvement, nginx_conf,
                   results_dir, report, full_file, partial_file, calls, tested,
                   skipped, failed, interrupted_at,
                   call, returned>>

\* a loop bounded by the number of candidates only
InRangeOfCandidates(i) == i <= Len(configs)

\* a loop that stops one iteration short of the requested count
InRangeExclusive(i) == i < args.iterations /\ i <= Len(configs)

\* lines 509-511: i is in range(1, iterations + 1) and does not break
InRange(i) == i <= args.iterations /\ i <= Len(configs)

\* lines 509-511: the next value of the loop variable, or the end of the loop
LoopHead ==
    /\ pc = "loop_head"
    /\ IF InRange(iteration + 1)
       THEN /\ iteration' = iteration + 1
            /\ pc' = "cand_apply"
       ELSE /\ iteration' = iteration
            /\ pc' = "results"
    /\ UNCHANGED <<args, configs, history, metrics, initial_rps, best_rps,
                   best_config, improvement, nginx_conf, results_dir, report,
                   full_file, partial_file, calls, tested, skipped, failed,
                   interrupted_at,
                   call, returned>>

\* a driver that lets a tie replace the best-so-far
IsBetterOrEqual(rps, best) == rps >= best

\* line 533
IsBetter(rps, best) == rps > best

\* lines 528-535
CandRecord ==
    /\ pc = "cand_record"
    /\ history' = Append(history, Record(iteration, configs[iteration], metrics))
    /\ IF IsBetter(metrics.rps, best_rps)
       THEN /\ best_rps' = metrics.rps
            /\ best_config' = configs[iteration]
       ELSE UNCHANGED <<best_rps, best_config>>
    /\ pc' = "loop_head"
    /\ UNCHANGED <<args, configs, metrics, iteration, initial_rps, improvement,
                   nginx_conf, results_dir, report, full_file, partial_file,
                   calls, tested, skipped, failed, interrupted_at,
                   call, returned>>

\* lines 537-550
Results ==
    /\ pc = "results"
    /\ improvement' = Improvement(best_rps, initial_rps)
    /\ pc' = "report"
    /\ UNCHANGED <<args, configs, history, metrics, iteration, initial_rps,
                   best_rps, best_config, nginx_conf, results_dir, report,
                   full_file, partial_file, calls, tested, skipped, failed,
                   interrupted_at,
                   call, returned>>

\* line 556: the report is written, or writing it raises (an OSError)
Report ==
    /\ pc = "report"
    /\ calls' = Called("report")
    /\ \E r \in ReportOutcomes(history) :
         /\ report' = IF r.ret = "raise" THEN report ELSE r.file
         /\ returned' = [ret |-> r.ret]
         /\ pc' = IF r.ret = "raise" THEN "Errored" ELSE "persist"
    /\ call' = [op |-> "generate_report"]
    /\ UNCHANGED <<args, configs, history, metrics, iteration, initial_rps,
                   best_rps, best_config, improvement, nginx_conf, results_dir,
                   full_file, partial_file, tested, skipped, failed, interrupted_at>>

\* a driver that persists the candidates without the baseline
FullHistoryWithoutBaseline(h) == JsonDump(Tail(h))

\* what ends up in optimization_history.json
FullHistoryDoc(h) == JsonDump(h)

\* lines 558-566: the history is written, or writing it raises
Persist ==
    /\ pc = "persist"
    /\ \/ /\ full_file' = Written(FullHistoryDoc(history))
          /\ pc' = "Completed"
       \/ /\ full_file' = full_file
          /\ pc' = "Errored"
    /\ UNCHANGED <<args, configs, history, metrics, iteration, initial_rps,
                   best_rps, best_config, improvement, nginx_conf, results_dir,
                   report, partial_file, calls, tested, skipped, failed, interrupted_at,
                   call, returned>>

\* a handler that writes the partial file even for an empty history
PartialFileAlways(h, file) == Written(JsonDump(h))

\* a handler that loses the record appended last
PartialFileDropsLast(h, file) ==
    IF h # <<>> THEN Written(JsonDump(SubSeq(h, 1, Len(h) - 1))) ELSE file

\* what ends up in optimization_history_partial.json (lines 570-573)
PartialFileAfter(h, file) == IF h # <<>> THEN Written(JsonDump(h)) ELSE file

\* a handler that generates the report wherever the interruption arrives
InterruptedInReportAlways(at) == TRUE

\* KeyboardInterrupt arrives at pc `at` inside generate_report (line 556),
\* which has then been invoked
InterruptedInReport(at) == at = "report"

\* an interruption that finds the full history written wherever it arrives
FullFileWhenInterruptedAnywhere(at, h, file) == {file, Written(FullHistoryDoc(h))}

\* optimization_history.json when KeyboardInterrupt arrives at pc `at`:
\* arriving in lines 558-566 it finds the file not yet written, or written
FullFileWhenInterrupted(at, h, file) ==
    IF at = "persist" THEN {file, Written(FullHistoryDoc(h))} ELSE {file}

\* KeyboardInterrupt inside the try block, and its handler (lines 568-574).
\* Raised inside generate_report or the final json.dump, it finds the file
\* of that step not yet written, or already written.
Interrupt ==
    /\ pc \in TryPcs
    /\ interrupted_at' = pc
    /\ partial_file' = PartialFileAfter(history, partial_file)
    /\ report' \in IF pc = "report"
                   THEN {report, Written(generate_report(history))}
                   ELSE {report}
    /\ full_file' \in FullFileWhenInterrupted(pc, history, full_file)
    /\ calls' = IF InterruptedInReport(pc) THEN Called("report") ELSE calls
    /\ pc' = "Interrupted"
    /\ UNCHANGED <<args, configs, history, metrics, iteration, initial_rps,
                   best_rps, best_config, improvement, nginx_conf, results_dir,
                   tested, skipped, failed,
                   call, returned>>

\* KeyboardInterrupt before the try block (lines 472-480) is not caught
InterruptEarly ==
    /\ pc = "generate"
    /\ interrupted_at' = pc
    /\ pc' = "Uncaught"
    /\ UNCHANGED <<args, configs, history, metrics, iteration, initial_rps,
                   best_rps, best_config, improvement, nginx_conf, results_dir,
                   report, full_file, partial_file, calls, tested, skipped, failed,
                   call, returned>>

Next ==
    \/ Generate
    \/ BaseApply
    \/ BaseReset
    \/ BaseRestart
    \/ BaseTest
    \/ BaseRecord
    \/ LoopHead
    \/ CandApply
    \/ CandReset
    \/ CandRestart
    \/ CandTest
    \/ CandRecord
    \/ Results
    \/ Report
    \/ Persist
    \/ Interrupt
    \/ InterruptEarly

Spec == Init /\ [][Next]_vars

\* every call main makes returns: subprocess.run returns or raises, the poll
\* of reset_system is bounded, the load test has a timeout; so main always
\* takes its next step
FairInit ==
    \E a \in [iterations : (-1)..MaxFairIterations,
               grid_size : {0} \cup GridSizes,
               full_reset : BOOLEAN] : Start(a)

FairSpec == FairInit /\ [][Next]_vars /\ WF_vars(Next)

(***************************************************************************)
(* Candidate generation on its own (lines 472-477), for any command line.  *)
(***************************************************************************)
GenerateInit ==
    \E a \in [iterations : (-MaxRequested)..MaxRequested,
               grid_size : (-MaxGridSize)..MaxGridSize,
               full_reset : {FALSE}] : Start(a)

GenerateSpec == GenerateInit /\ [][Generate]_vars

(***************************************************************************)
(* A component called on its own: pc goes from "call" to "returned".       *)
(***************************************************************************)
\* the locals of main, which a component does not touch
main_locals ==
    <<args, configs, history, metrics, iteration, initial_rps, best_rps,
      best_config, improvement, results_dir, report, full_file, partial_file,
      calls, tested, skipped, failed, interrupted_at>>

\* the component call c is about to run, nginx.conf holding conf
Alone(c, conf) ==
    /\ pc = "call"
    /\ call = c
    /\ args = Unset
    /\ nginx_conf = conf
    /\ Fresh

(***************************************************************************)
(* parse_locust_results on its own, on artifacts of up to MaxRows rows.    *)
(***************************************************************************)
\* the text of the cells of an aggregate row: 150.5, 3, not a number, no
\* such column; 12.3, not a number; 1000, 0, 1000.0; 10, not a number
RpsCells == {DecCell(1505), IntCell(3), JunkCell, AbsentCell}

AvgCells == {DecCell(123), JunkCell}

CountCells == {IntCell(1000), IntCell(0), DecCell(10000)}

FailCells == {IntCell(10), JunkCell}

\* rows marked "Aggregated" in the Type or in the Name column
AggregateRows ==
    {[Type |-> mark[1], Name |-> mark[2], Requests_s |-> rps,
      Average_Response_Time |-> avg, Request_Count |-> count,
      Failure_Count |-> fail] :
        mark \in {<<"Aggregated", "">>, <<"", "Aggregated">>},
        rps \in RpsCells, avg \in AvgCells, count \in CountCells,
        fail \in FailCells}

StatsFiles ==
    {[readable |-> FALSE, rows |-> <<>>]}
    \cup {Artifact(rows) :
            rows \in UNION {[1..n -> {RequestRow} \cup AggregateRows] :
                              n \in 0..MaxRows}}

ParseInit ==
    \E f \in StatsFiles :
        Alone([op |-> "parse_locust_results", stats_file |-> f],
              DefaultConf)

\* lines 208-234
Parse ==
    /\ pc = "call"
    /\ call.op = "parse_locust_results"
    /\ returned' = parse_locust_results(call.stats_file)
    /\ pc' = "returned"
    /\ UNCHANGED <<main_locals, nginx_conf, call>>

ParseSpec == ParseInit /\ [][Parse]_vars

(***************************************************************************)
(* apply_nginx_config on its own.                                          *)
(***************************************************************************)
\* files that differ in their line ends, in the whitespace of their
\* directives, in a commented-out directive, in a second keepalive directive
\* and in a second upstream block; and the empty file
ConfFiles ==
    {<<>>}
    \cup {ConfFile(eol, ws, gap, commented, uws, ugap, second, other) :
            eol \in {"LF", "CRLF"}, ws \in {" ", "  "}, gap \in {"", " "},
            commented \in BOOLEAN, uws \in {" ", "  "}, ugap \in {"", " "},
            second \in BOOLEAN, other \in BOOLEAN}

\* a value for each of the three parameters, and for one the editor does not
\* know
ParamValues ==
    [worker_connections |-> 2048, keepalive_timeout |-> 30,
     upstream_keepalive |-> 64, worker_processes |-> 4]

\* the config argument: any subset of these parameters
EditorConfigs ==
    {[d \in S |-> ParamValues[d]] : S \in SUBSET DOMAIN ParamValues}

ApplyInit ==
    \E f \in ConfFiles, config \in EditorConfigs, io \in ApplyIO :
        Alone([op |-> "apply_nginx_config", config |-> config, io |-> io,
               conf |-> f], f)

\* lines 34-72; call.conf keeps the content the file had before the call
ApplyCall ==
    /\ pc = "call"
    /\ call.op = "apply_nginx_config"
    /\ LET r == apply_nginx_config(call.config, nginx_conf, call.io)
       IN  /\ nginx_conf' = r.conf
           /\ returned' = r.ok
    /\ pc' = "returned"
    /\ UNCHANGED <<main_locals, call>>

ApplySpec == ApplyInit /\ [][ApplyCall]_vars

(***************************************************************************)
(* reset_system on its own.                                                *)
(***************************************************************************)
ResetInit ==
    \E full_reset \in BOOLEAN, env \in ResetEnvs :
        Alone([op |-> "reset_system", full_reset |-> full_reset, env |-> env],
              DefaultConf)

\* lines 89-157
ResetCall ==
    /\ pc = "call"
    /\ call.op = "reset_system"
    /\ returned' = reset_system(call.full_reset, call.env)
    /\ pc' = "returned"
    /\ UNCHANGED <<main_locals, nginx_conf, call>>

ResetSpec == ResetInit /\ [][ResetCall]_vars

(***************************************************************************)
(* generate_report on its own, on histories of up to MaxRecords records.   *)
(***************************************************************************)
\* the metrics of a record: throughput 0, 50 or 80 requests/s, or the
\* metrics of a load test that timed out
ReportMetrics ==
    {[ZeroMetrics EXCEPT !.rps = r] : r \in {0, 500, 800}}
    \cup {ErrorMetrics("exceeded maximum time")}

\* histories as main builds them: the baseline, then candidates in order
ReportHistories ==
    LET grid == generate_grid_configs(2)
    IN  UNION {{[i \in 1..n |->
                   Record(i - 1,
                          IF i = 1 THEN get_default_config ELSE grid[i - 1],
                          m[i])] :
                  m \in [1..n -> ReportMetrics]} :
               n \in 0..MaxRecords}

ReportInit ==
    \E h \in ReportHistories, charting \in Charting, io \in {"ok", "error"} :
        Alone([op |-> "generate_report", history |-> h, charting |-> charting,
               io |-> io],
              DefaultConf)

\* lines 269-443
ReportCall ==
    /\ pc = "call"
    /\ call.op = "generate_report"
    /\ returned' = WriteReport(call.history, call.charting, call.io)
    /\ pc' = "returned"
    /\ UNCHANGED <<main_locals, nginx_conf, call>>

ReportSpec == ReportInit /\ [][ReportCall]_vars

(***************************************************************************)
(* Properties.                                                             *)
(***************************************************************************)
Indices(h) == {h[i].iteration : i \in 1..Len(h)}

\* C1: once a record exists, best_rps is the largest throughput in history
\* and best_config is the configuration of the earliest record that has it
\* (a later record with the same throughput does not replace it).
C1_BestIsEarliestMaximum ==
    history # <<>> =>
        /\ \A i \in 1..Len(history) : history[i].metrics.rps <= best_rps
        /\ \E i \in 1..Len(history) :
             /\ history[i].metrics.rps = best_rps
             /\ history[i].config = best_config
             /\ \A j \in 1..(i - 1) : history[j].metrics.rps < best_rps

\* a candidate ties with the best-so-far, and another one had raised it
C1_Witness ==
    /\ pc = "loop_head"
    /\ Len(history) = 3
    /\ history[1].metrics.rps < history[2].metrics.rps
    /\ history[3].metrics.rps = history[2].metrics.rps
    /\ best_config = history[2].config

\* C2: an interruption raised in the candidate loop after k recorded
\* candidates writes the partial history with exactly the baseline record and
\* those k records, in order; no report and no full history is written, and
\* no configuration is applied, no reset and no load test is run afterwards.
C2_InterruptInLoopSavesRecorded ==
    [][/\ (pc \in CandidatePcs /\ pc' = "Interrupted") =>
            /\ partial_file'.state = "written"
            /\ partial_file'.doc = history
            /\ history[1].iteration = 0
            /\ history' = history
            /\ report' = NoFile
            /\ full_file' = NoFile
            /\ calls' = calls
            /\ UNCHANGED <<nginx_conf, results_dir, tested>>
       /\ pc = "Interrupted" => UNCHANGED vars]_vars

\* interrupted during the load test of candidate 2, candidate 1 recorded
C2_Witness ==
    /\ pc = "Interrupted"
    /\ interrupted_at = "cand_test"
    /\ iteration = 2
    /\ Len(history) = 2
    /\ partial_file = Written(history)

\* C3: when a candidate's reset fails, no record is appended for it, the
\* best-so-far is unchanged, no load test is run for it, and the loop goes
\* on with the next candidate.
C3_FailedCandidateResetSkips ==
    /\ [](\A i \in skipped \ {0} : i \notin tested /\ i \notin Indices(history))
    /\ [][/\ (pc = "cand_reset" /\ skipped' # skipped) =>
               /\ pc' = "loop_head"
               /\ UNCHANGED <<history, best_rps, best_config, tested, iteration>>
          /\ (pc = "loop_head" /\ iteration \in skipped) =>
               /\ pc' \in {"cand_apply", "results", "Interrupted"}
               /\ pc' = "cand_apply" => iteration' = iteration + 1
               /\ pc' = "results" =>
                    iteration >= Min(args.iterations, Len(configs))
               /\ UNCHANGED <<history, best_rps, best_config, tested>>]_vars

\* candidate 1 was skipped and candidate 2 is being recorded
C3_Witness ==
    /\ pc = "cand_record"
    /\ iteration = 2
    /\ 1 \in skipped

\* C4: when the baseline reset fails the run ends Aborted with an empty
\* history: no load test, no report, no history file.
C4_FailedBaselineResetAborts ==
    0 \in skipped =>
        /\ pc = "Aborted"
        /\ ~ENABLED Next
        /\ history = <<>>
        /\ tested = {}
        /\ calls.load_test = 0
        /\ calls.report = 0
        /\ report = NoFile
        /\ full_file = NoFile
        /\ partial_file = NoFile

C4_Witness == pc = "Aborted" /\ 0 \in skipped /\ calls.reset = 1

RecordPcs == {"base_record", "cand_record"}

\* C5 as claimed: every interruption from the baseline step onward leaves the
\* accumulated history in the partial file and no report.
C5_Original ==
    interrupted_at \in TryPcs =>
        /\ pc = "Interrupted"
        /\ partial_file.state = "written"
        /\ partial_file.doc = history
        /\ report = NoFile

\* C5 amended: an interruption from the baseline step onward is caught; a
\* non-empty history is written to the partial file and an empty one writes
\* nothing; a report exists only if the interruption came after
\* generate_report had written it.
C5_InterruptSavesWhatExists ==
    interrupted_at \in TryPcs =>
        /\ pc = "Interrupted"
        /\ ~ENABLED Next
        /\ history # <<>> =>
             partial_file.state = "written" /\ partial_file.doc = history
        /\ history = <<>> => partial_file = NoFile
        /\ report # NoFile => interrupted_at \in {"report", "persist"}
        /\ calls.report = 0 => report = NoFile

\* interrupted during the final json.dump: the report is already there
C5_Witness ==
    /\ pc = "Interrupted"
    /\ interrupted_at = "persist"
    /\ report.state = "written"
    /\ partial_file = Written(history)
    /\ Len(history) = 2

C7_HistoryOrderedAppendOnly ==
    /\ [](/\ \A i \in 1..Len(history) : \A j \in 1..(i - 1) :
               history[j].iteration < history[i].iteration
          /\ history # <<>> =>
               /\ history[1].iteration = 0
               /\ history[1].config = get_default_config)
    /\ [][\/ history' = history
          \/ /\ Len(history') = Len(history) + 1
             /\ SubSeq(history', 1, Len(history)) = history]_vars

\* two candidates recorded after the baseline
C7_Witness ==
    /\ Len(history) = 3
    /\ history[3].iteration = 2
    /\ history[3].config = configs[2]

\* C8 as claimed: at Completed there is exactly one record for every
\* iteration 0..min(requested, candidates).
C8_Original ==
    pc = "Completed" =>
        /\ Indices(history) = 0..Min(args.iterations, Len(configs))
        /\ Len(history) = Min(args.iterations, Len(configs)) + 1

\* C8 amended: at Completed there is exactly one record for the baseline and
\* for every candidate iteration 1..min(requested, candidates) whose reset
\* succeeded, and none for a candidate whose reset failed.
C8_OneRecordPerTestedIteration ==
    pc = "Completed" =>
        /\ Indices(history) =
             ({0} \cup (1..Min(args.iterations, Len(configs)))) \ skipped
        /\ Len(history) = Cardinality(Indices(history))

\* completed with candidate 1 skipped and candidate 2 recorded
C8_Witness ==
    /\ pc = "Completed"
    /\ skipped = {1}
    /\ Indices(history) = {0, 2}

\* C9 as claimed: a load test that times out, leaves no artifact of its own,
\* or whose artifact fails to parse yields throughput 0 (with an error
\* description for a timeout or a missing artifact), and its record is still
\* appended.
C9_FailedLoadTestYieldsZero ==
    \A f \in failed :
        /\ (pc \in RecordPcs /\ iteration = f.iteration) =>
             /\ metrics.rps = 0
             /\ f.why \in {"timeout", "no_artifact"} => "error" \in DOMAIN metrics
        /\ \A i \in 1..Len(history) :
             history[i].iteration = f.iteration =>
               /\ history[i].metrics.rps = 0
               /\ f.why \in {"timeout", "no_artifact"} =>
                    "error" \in DOMAIN history[i].metrics
        /\ \/ f.iteration \in Indices(history)
           \/ /\ iteration = f.iteration
              /\ pc \in RecordPcs \/ interrupted_at \in RecordPcs

\* C10 as claimed: the configuration of an iteration whose load test failed
\* is never the driver's final best-so-far configuration, nor the record the
\* report selects as best.
C10_FailedNeverBest ==
    \A f \in failed :
        /\ pc \in {"results", "report", "persist", "Completed"} =>
             best_config # ConfigOf(f.iteration)
        /\ report.state = "written" =>
             report.doc.best_config # ConfigOf(f.iteration)

\* the values one parameter takes in a list of configurations
AxisSet(cs, d) == {cs[i].nginx[d] : i \in 1..Len(cs)}

\* cs holds every combination of its three axes exactly once, and each axis
\* has n values
IsCrossProduct(cs, n) ==
    /\ Len(cs) = n * n * n
    /\ \A d \in {"worker_connections", "keepalive_timeout", "upstream_keepalive"} :
          Cardinality(AxisSet(cs, d)) = n
    /\ \A i, j \in 1..Len(cs) : cs[i] = cs[j] => i = j

\* configs is a sample of cs without repetition
IsSampleOf(sample, cs) ==
    /\ \A i \in 1..Len(sample) : \E k \in 1..Len(cs) : sample[i] = cs[k]
    /\ \A i, j \in 1..Len(sample) : sample[i] = sample[j] => i = j

ExampleHistory ==
    LET grid == generate_grid_configs(2)
    IN  <<Record(0, get_default_config, [ZeroMetrics EXCEPT !.rps = 500]),
          Record(1, grid[1], [ZeroMetrics EXCEPT !.rps = 800]),
          Record(2, grid[2], [ZeroMetrics EXCEPT !.rps = 650])>>

\* C12: the report names as best the earliest record with the largest
\* throughput, its improvement is (best - first) / first * 100 when the first
\* record's throughput is > 0 and 0 otherwise, and these values are the
\* best_rps, best_config and improvement main computed in the same run; on
\* throughputs 50, 80, 65 it gives best 80 and +60%.
C12_ReportAgreesWithDriver ==
    /\ report.state = "written" =>
          LET doc == report.doc
              first == history[1].metrics.rps
          IN  /\ history # <<>>
              /\ \E i \in 1..Len(history) :
                    /\ doc.best_rps = history[i].metrics.rps
                    /\ doc.best_config = history[i].config
                    /\ \A j \in 1..Len(history) :
                          history[j].metrics.rps <= doc.best_rps
                    /\ \A j \in 1..(i - 1) :
                          history[j].metrics.rps < doc.best_rps
              /\ doc.initial_rps = first
              /\ first > 0 =>
                    doc.improvement = Frac((doc.best_rps - first) * 100, first)
              /\ first <= 0 => doc.improvement = Frac(0, 1)
              /\ doc.best_rps = best_rps
              /\ doc.best_config = best_config
              /\ doc.improvement = improvement
              /\ doc.initial_rps = initial_rps
    /\ pc = "Completed" =>
          LET doc == generate_report(ExampleHistory)
          IN  /\ doc.best_rps = 800
              /\ doc.best_config = ExampleHistory[2].config
              /\ doc.improvement = [num |-> 60, den |-> 1]

\* the report of a run whose two candidates tie above the baseline
C12_Witness ==
    /\ report.state = "written"
    /\ Len(history) = 3
    /\ history[1].metrics.rps = 1
    /\ history[2].metrics.rps = 2
    /\ history[3].metrics.rps = 2
    /\ report.doc.best_config = history[2].config
    /\ report.doc.improvement = [num |-> 100, den |-> 1]

\* the call of parse_locust_results has returned
Parsed == pc = "returned" /\ call.op = "parse_locust_results"

\* C13 as claimed: on an artifact on which reading the file or converting a
\* field of the aggregate row raises, whichever the field, the parser returns
\* the zero-valued Metrics.
C13_ParseErrorYieldsZero ==
    (Parsed /\ ParseRaises(call.stats_file)) => returned = ZeroMetrics

\* no row before the i-th is marked "Aggregated" and the i-th is
FirstMarked(rows, i) ==
    /\ rows[i].Type = "Aggregated" \/ rows[i].Name = "Aggregated"
    /\ \A j \in 1..(i - 1) :
          rows[j].Type # "Aggregated" /\ rows[j].Name # "Aggregated"

\* the four cells of the row are numbers of the type their column is read as
Numeric(row) ==
    /\ row.Requests_s.kind \in {"int", "dec", "absent"}
    /\ row.Average_Response_Time.kind \in {"int", "dec", "absent"}
    /\ row.Request_Count.kind \in {"int", "absent"}
    /\ row.Failure_Count.kind \in {"int", "absent"}

\* C14: the values come from the first row whose Type or Name is
\* "Aggregated" and from no later row: its throughput and latency, and with
\* its request count T and failure count F, total_requests = T and
\* success_rate = (T - F) / T * 100 when T > 0, both 0 when T = 0.
C14_FirstAggregatedRowDecides ==
    Parsed =>
        LET rows == call.stats_file.rows
        IN  \A i \in 1..Len(rows) :
              (call.stats_file.readable /\ FirstMarked(rows, i) /\ Numeric(rows[i])) =>
                LET T == ToInt(rows[i].Request_Count)
                    F == ToInt(rows[i].Failure_Count)
                IN  /\ returned.rps = ToFloat(rows[i].Requests_s)
                    /\ returned.avg_response_time =
                         ToFloat(rows[i].Average_Response_Time)
                    /\ T > 0 =>
                         /\ returned.total_requests = T
                         /\ returned.success_rate = Frac((T - F) * 100, T)
                    /\ T = 0 =>
                         /\ returned.total_requests = 0
                         /\ returned.success_rate = Frac(0, 1)

\* 150.5 requests/s, 1000 requests, 10 failures, followed by a second
\* aggregate row with other values: rps 150.5, total 1000, success rate 99.0
C14_Witness ==
    /\ Parsed
    /\ Len(call.stats_file.rows) = 2
    /\ call.stats_file.rows[1].Type = "Aggregated"
    /\ call.stats_file.rows[1].Requests_s = DecCell(1505)
    /\ call.stats_file.rows[1].Request_Count = IntCell(1000)
    /\ call.stats_file.rows[1].Failure_Count = IntCell(10)
    /\ call.stats_file.rows[2].Name = "Aggregated"
    /\ call.stats_file.rows[2].Requests_s = IntCell(3)
    /\ call.stats_file.rows[2].Request_Count = IntCell(0)
    /\ returned.rps = 1505
    /\ returned.total_requests = 1000
    /\ returned.success_rate = [num |-> 99, den |-> 1]

\* C15: an artifact with no row marked "Aggregated" (also one with no rows
\* at all) parses to the zero-valued Metrics.
C15_NoAggregateRowYieldsZero ==
    (/\ Parsed
     /\ call.stats_file.readable
     /\ \A i \in 1..Len(call.stats_file.rows) :
           /\ call.stats_file.rows[i].Type # "Aggregated"
           /\ call.stats_file.rows[i].Name # "Aggregated")
    => returned = ZeroMetrics

\* an artifact whose rows are all per-request rows
C15_Witness ==
    /\ Parsed
    /\ call.stats_file = Artifact(<<RequestRow, RequestRow>>)
    /\ returned = ZeroMetrics

\* the call of apply_nginx_config has returned
Applied == pc = "returned" /\ call.op = "apply_nginx_config"

\* the directive a recognized parameter is written to
DirectiveOf ==
    [worker_connections |-> "worker_connections",
     keepalive_timeout |-> "keepalive_timeout",
     upstream_keepalive |-> "keepalive"]

\* C16 as claimed: a successful call changes only the integer token of the
\* directive of a recognized parameter of the Configuration, to the value
\* given; every other byte of the file is as before, and a directive written
\* "name digits;" of a given parameter holds the new value.
C16_OnlyNumericTokensChange ==
    (Applied /\ returned = TRUE) =>
        /\ Len(nginx_conf) = Len(call.conf)
        /\ \A i \in 1..Len(call.conf) :
              \/ nginx_conf[i] = call.conf[i]
              \/ /\ call.conf[i].kind = "directive"
                 /\ \E p \in DOMAIN DirectiveOf \cap DOMAIN call.config :
                       /\ DirectiveOf[p] = call.conf[i].name
                       /\ nginx_conf[i] =
                            [call.conf[i] EXCEPT !.value = call.config[p]]
        /\ \A i \in 1..Len(call.conf) :
              (/\ "worker_connections" \in DOMAIN call.config
               /\ call.conf[i] = Dir("worker_connections", " ", 1024, ""))
              => nginx_conf[i] = Dir("worker_connections", " ",
                                     call.config["worker_connections"], "")

\* C17 as claimed: whenever apply_nginx_config returns false, the file
\* holds what it held before the call, whether the read or the write failed.
C17_FalseLeavesFileUnchanged ==
    (Applied /\ returned = FALSE) => nginx_conf = call.conf

\* the names of the steps the call executed
Ran(steps) == {steps[i].name : i \in 1..Len(steps)}

\* C18 as claimed: reset_system returns false if and only if the stop
\* command, the volume removal (run only when full) or the start command
\* exits non-zero, and that command is then the last step executed; in every
\* other case it returns true, also when the database is never seen ready
\* and both ways of clearing the dataset fail.
C18_ResetFalseIffCommandFails ==
    (pc = "returned" /\ call.op = "reset_system") =>
        LET steps == returned.steps
            failing == {c \in {"down", "down_v", "up"} \cap Ran(steps) :
                          call.env[c] = "nonzero"}
        IN  /\ returned.ret = "false" <=> failing # {}
            /\ returned.ret = "false" => steps[Len(steps)].name \in failing
            /\ "down_v" \in Ran(steps) => call.full_reset
            /\ failing = {} => returned.ret = "true"

\* C19 as claimed: no failure inside the editor, the environment controller,
\* the load runner or the parser reaches main as an exception: main's
\* exception handler is only ever entered from the report and persistence
\* steps.
C19_NoComponentExceptionReachesDriver ==
    pc = "Errored" => calls.report > 0

EndedUninterrupted == pc \in {"Completed", "Aborted", "Errored"}

\* the iterations main has begun: 0 and the candidates up to the loop variable
Begun == IF calls.apply = 0 THEN {} ELSE 0..iteration

\* C21 as claimed: a false result from apply_nginx_config or restart_nginx
\* never aborts the run and never skips the iteration (the next step is the
\* reset, respectively the load test), and among component failures only a
\* failure of reset_system leaves an iteration that was begun without a
\* record.
C21_OnlyResetFailurePreventsRecord ==
    /\ [][/\ (calls'.apply # calls.apply /\ returned' = [ok |-> FALSE]) =>
               pc' = IF pc = "base_apply" THEN "base_reset" ELSE "cand_reset"
          /\ (calls'.restart # calls.restart /\ returned' = [ret |-> "false"]) =>
               pc' = IF pc = "base_restart" THEN "base_test" ELSE "cand_test"]_vars
    /\ [](EndedUninterrupted =>
             \A i \in Begun \ Indices(history) :
                \/ i \in skipped
                \/ /\ i = iteration
                   /\ call.op = "reset_system"
                   /\ returned = [ret |-> "raise"])

\* C22: `docker compose down -v` runs at most once in a run, only inside the
\* baseline reset and only under --full-reset; no reset of a candidate runs
\* it, whatever the option.
C22_VolumesRemovedOnlyByFullBaselineReset ==
    /\ [](/\ calls.down_v <= 1
          /\ calls.down_v = 1 => args.full_reset)
    /\ [][calls'.down_v # calls.down_v =>
            /\ pc = "base_reset"
            /\ calls.reset = 0
            /\ args.full_reset]_vars

\* under --full-reset the baseline reset removed the volumes and the resets
\* of two candidates did not
C22_Witness ==
    /\ args.full_reset
    /\ pc = "cand_restart"
    /\ iteration = 2
    /\ calls.reset = 3
    /\ calls.down_v = 1

\* the call of reset_system has returned
ResetReturned == pc = "returned" /\ call.op = "reset_system"

\* the stop, the volume removal (run when full) and the start all exited 0
Started(full_reset, env) ==
    /\ env.down = "ok"
    /\ full_reset => env.down_v = "ok"
    /\ env.up = "ok"

\* the position of the step of that name among the steps executed, 0 if it
\* was not executed
StepIndex(steps, name) ==
    IF \E i \in 1..Len(steps) : steps[i].name = name
    THEN CHOOSE i \in 1..Len(steps) : steps[i].name = name
    ELSE 0

\* C23 as claimed: reset_system attempts to clear the dataset only after the
\* start command succeeded; the direct clear comes first; the in-container
\* command is executed if and only if the direct clear did not succeed
\* (psycopg2 absent, or its attempt failed); and when both fail, however the
\* in-container command fails, reset_system still returns true.
C23_ClearingOrderAndFallback ==
    ResetReturned =>
        LET steps == returned.steps
            env == call.env
            up == StepIndex(steps, "up")
            direct == StepIndex(steps, "truncate")
            inside == StepIndex(steps, "exec_truncate")
            direct_ok == env.has_psycopg2 /\ env.truncate = "ok"
        IN  /\ (direct > 0 \/ inside > 0) => Started(call.full_reset, env)
            /\ direct > 0 => 0 < up /\ up < direct
            /\ inside > 0 => 0 < up /\ up < inside /\ direct < inside
            /\ Started(call.full_reset, env) =>
                 /\ env.has_psycopg2 <=> direct > 0
                 /\ inside > 0 <=> ~direct_ok
                 /\ (~direct_ok /\ env.exec # "ok") => returned.ret = "true"

\* C24: after a successful start the readiness poll makes at least one and
\* at most 30 connection attempts and stops at the first one that connects;
\* whether the database is ready early, is never ready, or psycopg2 is absent
\* (then no attempt is made), reset_system goes on to the dataset-clearing
\* step and does not return false.
C24_PollBoundedAndNonFatal ==
    (ResetReturned /\ Started(call.full_reset, call.env)) =>
        LET steps == returned.steps
            env == call.env
            wait == StepIndex(steps, "wait_db")
        IN  /\ env.has_psycopg2 =>
                 /\ wait > 0
                 /\ steps[wait].polls >= 1
                 /\ steps[wait].polls <= PollLimit
                 /\ env.db_ready_at <= PollLimit =>
                      steps[wait].polls = env.db_ready_at
                 /\ env.db_ready_at > PollLimit => steps[wait].polls = PollLimit
                 /\ Len(steps) > wait
                 /\ steps[wait + 1].name = "truncate"
            /\ ~env.has_psycopg2 =>
                 /\ wait = 0
                 /\ StepIndex(steps, "exec_truncate") = StepIndex(steps, "up") + 1
            /\ returned.ret # "false"

\* the database never accepts a connection: 30 attempts, then the clearing
\* is attempted both ways and reset_system returns true
C24_Witness ==
    /\ ResetReturned
    /\ call.env.has_psycopg2
    /\ call.env.db_ready_at > PollLimit
    /\ returned.steps[StepIndex(returned.steps, "wait_db")].polls = PollLimit
    /\ StepIndex(returned.steps, "truncate") > 0
    /\ StepIndex(returned.steps, "exec_truncate") > 0
    /\ returned.ret = "true"

\* C25: for every non-empty history, and a reports directory that can be
\* written, generate_report returns to the driver having written a report
\* whose results table has exactly one row per record, in the order of the
\* history, each row with the record's iteration, configuration and
\* throughput; this is so whether charting is unavailable, renders both
\* charts, or fails while rendering one.
C25_ReportHasOneRowPerRecord ==
    (/\ pc = "returned"
     /\ call.op = "generate_report"
     /\ call.history # <<>>
     /\ call.io = "ok")
    => /\ returned.ret = "path"
       /\ returned.file.state = "written"
       /\ LET rows == returned.file.doc.rows
              h == call.history
          IN  /\ Len(rows) = Len(h)
              /\ \A i \in 1..Len(h) :
                    /\ rows[i].iteration = h[i].iteration
                    /\ rows[i].worker_connections =
                         h[i].config.nginx.worker_connections
                    /\ rows[i].keepalive_timeout =
                         h[i].config.nginx.keepalive_timeout
                    /\ rows[i].upstream_keepalive =
                         h[i].config.nginx.upstream_keepalive
                    /\ rows[i].rps = h[i].metrics.rps

\* the second chart fails to render: the report of a history of three
\* records, one of a load test that timed out, has its three rows
C25_Witness ==
    /\ pc = "returned"
    /\ call.op = "generate_report"
    /\ call.charting = "fails_second"
    /\ Len(call.history) = 3
    /\ "error" \in DOMAIN call.history[2].metrics
    /\ call.history[3].metrics.rps = 800
    /\ returned.ret = "path"
    /\ returned.images = <<"rps_over_iterations">>
    /\ Len(returned.file.doc.rows) = 3
    /\ returned.file.doc.rows[3].iteration = 2

\* the run has ended
Ended == pc \in {"Completed", "Interrupted", "Aborted", "Errored", "Uncaught"}

\* C26 as claimed: every run that appended at least one record ends with the
\* accumulated history in the full-history or in the partial-history file,
\* whatever ends the run, a failure of generate_report or an unexpected
\* error in a later iteration included.
C26_HistoryAlwaysPersisted ==
    (Ended /\ history # <<>>) =>
        \/ full_file = Written(JsonDump(history))
        \/ partial_file = Written(JsonDump(history))

\* C27 as claimed: a run writes at most one of the two history files, the
\* full one only when it ends Completed and the partial one only when it
\* ends Interrupted; no run writes, or begins writing, both.
C27_Original ==
    /\ ~(full_file # NoFile /\ partial_file # NoFile)
    /\ full_file # NoFile => pc = "Completed"
    /\ partial_file # NoFile => pc = "Interrupted"

\* C27 amended: the full-history file is written only by the final step of
\* an uninterrupted run, the partial one only by the interruption handler; a
\* run has written both exactly when the interruption arrived during or
\* after the final write (lines 558-566) and the full file had been written,
\* and a run that ends Completed has written only the full one.
C27_BothOnlyWhenInterruptedWhilePersisting ==
    /\ full_file # NoFile =>
         \/ pc = "Completed"
         \/ pc = "Interrupted" /\ interrupted_at = "persist"
    /\ partial_file # NoFile => pc = "Interrupted" /\ history # <<>>
    /\ (full_file # NoFile /\ partial_file # NoFile) <=>
         (pc = "Interrupted" /\ interrupted_at = "persist" /\ full_file # NoFile)
    /\ pc = "Completed" => full_file # NoFile /\ partial_file = NoFile

\* interrupted after the final json.dump: both files hold the history
C27_Witness ==
    /\ pc = "Interrupted"
    /\ interrupted_at = "persist"
    /\ Len(history) = 3
    /\ full_file = Written(JsonDump(history))
    /\ partial_file = Written(JsonDump(history))

\* the file has a directive of that name
HasDirective(conf, name) ==
    \E i \in 1..Len(conf) : conf[i].kind = "directive" /\ conf[i].name = name

\* the value of the first directive of that name in the file
FileValue(conf, name) ==
    conf[CHOOSE i \in 1..Len(conf) :
            /\ conf[i].kind = "directive" /\ conf[i].name = name
            /\ \A j \in 1..(i - 1) :
                  ~(conf[j].kind = "directive" /\ conf[j].name = name)].value

\* the Configuration the file holds
FileConfig(conf) ==
    [worker_connections |-> FileValue(conf, "worker_connections"),
     keepalive_timeout  |-> FileValue(conf, "keepalive_timeout"),
     upstream_keepalive |-> FileValue(conf, "keepalive")]

\* C28 as claimed: whenever a record is appended, the configuration file,
\* which has not changed since that iteration's load test ran, holds in its
\* three directives (if it has them) the values of the record's
\* Configuration.
C28_RecordedConfigWasInEffect ==
    [][history' # history =>
          ((\A name \in {"worker_connections", "keepalive_timeout", "keepalive"} :
               HasDirective(nginx_conf, name))
           => FileConfig(nginx_conf) = history'[Len(history')].config.nginx)]_vars

\* every candidate iteration has been recorded or skipped
AllProcessed ==
    \A i \in 1..Min(args.iterations, Len(configs)) :
        i \in Indices(history) \cup skipped

\* C29 as claimed: generate_report is invoked at most once in a run; once
\* it has been, every candidate iteration is recorded or skipped and the
\* history (which generate_report does not change) starts with the baseline
\* record; no run that ends Aborted or Interrupted has invoked it.
C29_Original ==
    /\ calls.report <= 1
    /\ calls.report = 1 =>
         /\ AllProcessed
         /\ history # <<>>
         /\ history[1].iteration = 0
    /\ pc \in {"Aborted", "Interrupted"} => calls.report = 0

\* C29 amended: generate_report is invoked at most once in a run; once it
\* has been, the loop is over, every candidate iteration is recorded or
\* skipped and the history starts with the baseline record; it is never
\* invoked in a run that ends Aborted, and nothing runs after an abort or
\* an interruption; a run that ends Interrupted has invoked it only if the
\* interruption arrived during report generation or during the final write
\* that follows it.
C29_ReportOnceAfterLoop ==
    /\ calls.report <= 1
    /\ calls.report = 1 =>
         /\ pc \in {"persist", "Completed", "Interrupted", "Errored"}
         /\ iteration >= Min(args.iterations, Len(configs))
         /\ AllProcessed
         /\ history # <<>>
         /\ history[1].iteration = 0
    /\ pc \in {"Aborted", "Interrupted"} => ~ENABLED Next
    /\ pc = "Aborted" => calls.report = 0
    /\ (pc = "Interrupted" /\ calls.report = 1) =>
         interrupted_at \in {"report", "persist"}

\* interrupted during the final write, after the report of a run that
\* skipped candidate 1 and recorded candidate 2
C29_Witness ==
    /\ pc = "Interrupted"
    /\ interrupted_at = "persist"
    /\ calls.report = 1
    /\ skipped = {1}
    /\ Indices(history) = {0, 2}
    /\ report.state = "written"

\* C30: every run ends (Completed, Interrupted, Aborted, or by an exception),
\* having begun the baseline iteration at most once and, each at most once
\* and in order, only candidate iterations numbered from 1 to
\* min(requested iterations, number of candidates).
C30_RunTerminatesWithinBudget ==
    /\ <>Ended
    /\ [][calls'.apply # calls.apply =>
            /\ calls'.apply = calls.apply + 1
            /\ \/ pc = "base_apply" /\ calls.apply = 0 /\ iteration = 0
               \/ /\ pc = "cand_apply"
                  /\ calls.apply = iteration
                  /\ iteration \in 1..Min(args.iterations, Len(configs))]_vars
    /\ [](calls.apply <= 1 + Max(0, Min(args.iterations, Len(configs))))

\* one iteration was requested of a grid of eight candidates: the run
\* completes after the baseline and one candidate
C30_Witness ==
    /\ pc = "Completed"
    /\ args.iterations = 1
    /\ Len(generate_grid_configs(args.grid_size)) = 8
    /\ Len(configs) = 1
    /\ calls.apply = 2
    /\ Indices(history) = {0, 1}

====
